---- MODULE Spec2Model ----
(***************************************************************************)
(* carGPT: the scrape-normalize-persist pipeline.                          *)
(*                                                                         *)
(*  - NjuskaloScraper (selenium_scraper.ipynb): start / handle_page /      *)
(*    handle_link / extract_article_info / save_article, with the two      *)
(*    context managers ChromeDriveConnection and DatabaseConnection.       *)
(*  - transform_data and the insertion cell                                *)
(*    (scripts/test_insertion_into_postrges.ipynb).                        *)
(*                                                                         *)
(* Python strings are sequences of one-character strings; Python values    *)
(* are tagged records of one shape, so that any two values compare.        *)
(* The one non-ASCII letter of the notebook's sample data (the s with      *)
(* caron in the word after "2021.") is written "s".                        *)
(***************************************************************************)
EXTENDS Integers, Sequences, FiniteSets, TLC

VARIABLES
    \* ---- NjuskaloScraper run (selenium_scraper.ipynb)
    pc,            \* position of the run inside start()
    browser,       \* "none" | "open" | "quit": the webdriver.Chrome session
    db,            \* "none" | "open" | "closed": the sqlite3 connection of save_article
    schema,        \* which ads layout the database was created with
    ads,           \* the ads table: a sequence of committed rows
    pending,       \* rows executed and not yet committed on the open connection
    page_ads,      \* the list items of the listing page the browser shows
    ad_links,      \* the links handle_page still has to handle
    link,          \* the link handle_link works on
    detail,        \* the ad detail page the browser shows
    article_info,  \* the dict extract_article_info returned
    exc,           \* the exception being propagated ("none" when there is none)
    log,           \* logger records and the raised error of the current run
    sleep_time,    \* the last random.randint(1, 10)
    runs,          \* number of start() calls so far
    saved,         \* history: the links whose save_article call returned
    \* ---- test_insertion_into_postrges.ipynb
    nb_pc,         \* position inside the notebook
    data,          \* the raw record (cell 1)
    transformed_data, \* transform_data(data), then stamped with date_created
    conn,          \* "none" | "open" | "closed": the psycopg2 connection
    nb_exc,        \* the error that ended the insertion cell ("none" when none did)
    \* ---- carGPT/backend/main.py
    chat_histories, \* session_id -> the messages of its ChatMessageHistory
    requests       \* the /chat requests: where each one is and its locals

scraper_vars == <<pc, browser, db, page_ads, ad_links, link, detail,
                  article_info, exc, log, sleep_time, runs, saved>>
notebook_vars == <<nb_pc, data, transformed_data, conn, nb_exc>>
chat_vars == <<chat_histories, requests>>
vars == <<scraper_vars, notebook_vars, chat_vars, schema, ads, pending>>

-----------------------------------------------------------------------------
(* Python strings                                                          *)

Digits == {"0", "1", "2", "3", "4", "5", "6", "7", "8", "9"}

DigitVal(c) ==
    CASE c = "0" -> 0 [] c = "1" -> 1 [] c = "2" -> 2 [] c = "3" -> 3
      [] c = "4" -> 4 [] c = "5" -> 5 [] c = "6" -> 6 [] c = "7" -> 7
      [] c = "8" -> 8 [] c = "9" -> 9

\* str.isspace() characters that strip() and split() treat as separators
Whitespace == {" ", "\t", "\n"}

\* x starts with the string p
StartsWith(x, p) == Len(x) >= Len(p) /\ SubSeq(x, 1, Len(p)) = p

\* "c" in x, for a one-character c
Contains(x, c) == \E i \in 1..Len(x) : x[i] = c

\* x.split(sep) for a one-character separator: the list of the parts
\* between separators, empty parts included
RECURSIVE str_split(_, _)
str_split(x, sep) ==
    IF ~Contains(x, sep) THEN <<x>>
    ELSE LET i == CHOOSE j \in 1..Len(x) :
                      x[j] = sep /\ \A k \in 1..(j - 1) : x[k] # sep
         IN <<SubSeq(x, 1, i - 1)>> \o str_split(SubSeq(x, i + 1, Len(x)), sep)

\* x.lstrip() and x.strip()
RECURSIVE str_lstrip(_)
str_lstrip(x) ==
    IF x # <<>> /\ Head(x) \in Whitespace THEN str_lstrip(Tail(x)) ELSE x

RECURSIVE str_rstrip(_)
str_rstrip(x) ==
    IF x # <<>> /\ x[Len(x)] \in Whitespace
    THEN str_rstrip(SubSeq(x, 1, Len(x) - 1)) ELSE x

str_strip(x) == str_rstrip(str_lstrip(x))

\* x.split(): the whitespace-separated tokens, none of them empty
RECURSIVE str_split_ws(_)
str_split_ws(x) ==
    LET y == str_lstrip(x) IN
    IF y = <<>> THEN <<>>
    ELSE LET n == IF \E j \in 1..Len(y) : y[j] \in Whitespace
                  THEN (CHOOSE j \in 1..Len(y) :
                            y[j] \in Whitespace
                            /\ \A k \in 1..(j - 1) : y[k] \notin Whitespace) - 1
                  ELSE Len(y)
         IN <<SubSeq(y, 1, n)>> \o str_split_ws(SubSeq(y, n + 1, Len(y)))

\* x.replace(old, new): every non-overlapping occurrence, left to right
RECURSIVE str_replace(_, _, _)
str_replace(x, old, new) ==
    IF x = <<>> THEN <<>>
    ELSE IF StartsWith(x, old)
         THEN new \o str_replace(SubSeq(x, Len(old) + 1, Len(x)), old, new)
         ELSE <<Head(x)>> \o str_replace(Tail(x), old, new)

\* x.lower(): an upper-case letter becomes its lower-case letter, any other
\* character stays
UpperCase == <<"A", "B", "C", "D", "E", "F", "G", "H", "I", "J", "K", "L", "M",
               "N", "O", "P", "Q", "R", "S", "T", "U", "V", "W", "X", "Y", "Z">>
LowerCase == <<"a", "b", "c", "d", "e", "f", "g", "h", "i", "j", "k", "l", "m",
               "n", "o", "p", "q", "r", "s", "t", "u", "v", "w", "x", "y", "z">>

LowerChar(c) ==
    IF \E i \in 1..Len(UpperCase) : UpperCase[i] = c
    THEN LowerCase[CHOOSE i \in 1..Len(UpperCase) : UpperCase[i] = c]
    ELSE c

str_lower(x) == [i \in 1..Len(x) |-> LowerChar(x[i])]

\* characters that str.isdigit() takes for digits and int() does not read:
\* the superscript two, written "^2"
OtherDigits == {"^2"}

\* x.isdigit(): non-empty and every character a digit
str_isdigit(x) == x # <<>> /\ \A i \in 1..Len(x) : x[i] \in Digits \cup OtherDigits

-----------------------------------------------------------------------------
(* Python values                                                           *)

PyStr(s)   == [t |-> "str",   s |-> s,    n |-> 0, e |-> 0]
PyInt(n)   == [t |-> "int",   s |-> <<>>, n |-> n, e |-> 0]
PyBool(b)  == [t |-> "bool",  s |-> <<>>, n |-> IF b THEN 1 ELSE 0, e |-> 0]

\* a float read from a decimal literal: n / 10^e, with no trailing zero in
\* the fraction, so that equal numbers are equal records
RECURSIVE PyFloat(_, _)
PyFloat(n, e) ==
    IF e > 0 /\ n % 10 = 0 THEN PyFloat(n \div 10, e - 1)
    ELSE [t |-> "float", s |-> <<>>, n |-> n, e |-> e]

\* the outcome of calling a function: a value, or an exception raised
Returned(v) == [ok |-> TRUE, v |-> v]
Raised      == [ok |-> FALSE, v |-> PyStr(<<>>)]

\* the number a string of digits denotes
RECURSIVE DigitsValue(_)
DigitsValue(x) ==
    IF x = <<>> THEN 0
    ELSE 10 * DigitsValue(SubSeq(x, 1, Len(x) - 1)) + DigitVal(x[Len(x)])

\* digits with single underscores between them (PEP 515)
DigitGroupOK(x) ==
    /\ x # <<>>
    /\ \A i \in 1..Len(x) : x[i] \in Digits \cup {"_"}
    /\ x[1] # "_" /\ x[Len(x)] # "_"
    /\ \A i \in 1..(Len(x) - 1) : ~(x[i] = "_" /\ x[i + 1] = "_")

Unsigned(x) == IF x # <<>> /\ Head(x) \in {"+", "-"} THEN Tail(x) ELSE x
Sign(x)     == IF x # <<>> /\ Head(x) = "-" THEN -1 ELSE 1

\* int(x) for a string x: surrounding whitespace is ignored, then an optional
\* sign and a digit group; anything else raises ValueError
py_int(x) ==
    LET y == str_strip(x)
        u == Unsigned(y)
    IN IF DigitGroupOK(u)
       THEN Returned(PyInt(Sign(y) * DigitsValue(str_replace(u, <<"_">>, <<>>))))
       ELSE Raised

\* float(x) for a string x holding a decimal literal: optional sign, digits
\* with at most one '.', at least one digit.  (Exponents, "inf" and "nan"
\* need letters that no first token of the inputs below has.)
py_float(x) ==
    LET y == str_strip(x)
        u == Unsigned(y)
        p == str_split(u, ".")
        ip == p[1]
        fp == IF Len(p) = 2 THEN p[2] ELSE <<>>
        clean(d) == str_replace(d, <<"_">>, <<>>)
    IN IF /\ Len(p) <= 2
          /\ ip = <<>> \/ DigitGroupOK(ip)
          /\ fp = <<>> \/ DigitGroupOK(fp)
          /\ ip # <<>> \/ fp # <<>>
       THEN Returned(PyFloat(Sign(y) * DigitsValue(clean(ip) \o clean(fp)),
                             Len(clean(fp))))
       ELSE Raised

-----------------------------------------------------------------------------
(* Python dicts: a sequence of entries with distinct keys, in insertion    *)
(* order                                                                   *)

DictKeys(d)   == {d[i].k : i \in 1..Len(d)}
DictHas(d, k) == k \in DictKeys(d)
DictGet(d, k) == d[CHOOSE i \in 1..Len(d) : d[i].k = k].v

\* d[k] = v
DictSet(d, k, v) ==
    IF DictHas(d, k)
    THEN [i \in 1..Len(d) |-> IF d[i].k = k THEN [k |-> k, v |-> v] ELSE d[i]]
    ELSE Append(d, [k |-> k, v |-> v])

-----------------------------------------------------------------------------
(* transform_data (scripts/test_insertion_into_postrges.ipynb)             *)
(* Each lambda of `transformations` is an operator on a Python value that  *)
(* returns a value or raises.  A str method called on a value that is not  *)
(* a str raises (AttributeError, TypeError).                               *)

\* int(x.split(".")[0]) if "." in x else int(x)
YearLambda(x) ==
    IF x.t # "str" THEN Raised
    ELSE IF Contains(x.s, ".") THEN py_int(str_split(x.s, ".")[1])
         ELSE py_int(x.s)

t_manufacture_year_last(x) ==
    IF x.t # "str" THEN Raised
    ELSE IF Contains(x.s, ".")
         THEN py_int(str_split(x.s, ".")[Len(str_split(x.s, "."))])
         ELSE py_int(x.s)

t_manufacture_year(x) == YearLambda(x)

t_model_year(x) == YearLambda(x)

t_in_traffic_since(x) == YearLambda(x)

\* int(x.split()[0].replace(".", ""))
t_mileage_keep_dots(x) ==
    IF x.t # "str" \/ str_split_ws(x.s) = <<>> THEN Raised
    ELSE py_int(str_split_ws(x.s)[1])

t_mileage(x) ==
    IF x.t # "str" \/ str_split_ws(x.s) = <<>> THEN Raised
    ELSE py_int(str_replace(str_split_ws(x.s)[1], <<".">>, <<>>))

\* int(x.split()[0])
t_power(x) ==
    IF x.t # "str" \/ str_split_ws(x.s) = <<>> THEN Raised
    ELSE py_int(str_split_ws(x.s)[1])

\* x.lower() == "da"
t_service_book_exact(x) ==
    IF x.t # "str" THEN Raised
    ELSE Returned(PyBool(x.s = <<"d", "a">>))

\* str(x).lower() == "da"
t_service_book_str(x) ==
    IF x.t # "str" THEN Returned(PyBool(FALSE))
    ELSE Returned(PyBool(str_lower(x.s) = <<"d", "a">>))

t_service_book(x) ==
    IF x.t # "str" THEN Raised
    ELSE Returned(PyBool(str_lower(x.s) = <<"d", "a">>))

\* float(x.split()[0].replace(",", "."))
DecimalLambda(x) ==
    IF x.t # "str" \/ str_split_ws(x.s) = <<>> THEN Raised
    ELSE py_float(str_replace(str_split_ws(x.s)[1], <<",">>, <<".">>))

t_fuel_consumption_keep_comma(x) ==
    IF x.t # "str" \/ str_split_ws(x.s) = <<>> THEN Raised
    ELSE py_float(str_split_ws(x.s)[1])

t_fuel_consumption(x) == DecimalLambda(x)

t_average_CO2_emission(x) == DecimalLambda(x)

\* int(x.split()[0]) if x.split()[0].isdigit() else x
t_owner_whole(x) ==
    IF x.t # "str" \/ str_split_ws(x.s) = <<>> THEN Raised
    ELSE IF str_isdigit(x.s) THEN py_int(x.s)
         ELSE Returned(x)

t_owner(x) ==
    IF x.t # "str" \/ str_split_ws(x.s) = <<>> THEN Raised
    ELSE IF str_isdigit(str_split_ws(x.s)[1]) THEN py_int(str_split_ws(x.s)[1])
         ELSE Returned(x)

\* int(x.replace(".", "").replace(" cm3", ""))
t_displacement_suffix_only(x) ==
    IF x.t # "str" THEN Raised
    ELSE py_int(str_replace(x.s, <<" ", "c", "m", "3">>, <<>>))

t_displacement(x) ==
    IF x.t # "str" THEN Raised
    ELSE py_int(str_replace(str_replace(x.s, <<".">>, <<>>),
                            <<" ", "c", "m", "3">>, <<>>))

\* the keys of the transformations dict
TransformationKeys ==
    {"manufacture_year", "model_year", "mileage", "power", "service_book",
     "fuel_consumption", "average_CO2_emission", "owner", "displacement",
     "in_traffic_since"}

\* transformations[key](value)
transformations(key, value) ==
    CASE key = "manufacture_year"     -> t_manufacture_year(value)
      [] key = "model_year"           -> t_model_year(value)
      [] key = "mileage"              -> t_mileage(value)
      [] key = "power"                -> t_power(value)
      [] key = "service_book"         -> t_service_book(value)
      [] key = "fuel_consumption"     -> t_fuel_consumption(value)
      [] key = "average_CO2_emission" -> t_average_CO2_emission(value)
      [] key = "owner"                -> t_owner(value)
      [] key = "displacement"         -> t_displacement(value)
      [] key = "in_traffic_since"     -> t_in_traffic_since(value)

\* the body of the loop: what transformed_data[key] is set to
transform_item_none_on_error(key, value) ==
    IF key \in TransformationKeys
    THEN IF transformations(key, value).ok
         THEN transformations(key, value).v
         ELSE PyStr(<<>>)
    ELSE value

transform_item_strip_all(key, value) ==
    IF key \in TransformationKeys
    THEN IF transformations(key, value).ok
         THEN transformations(key, value).v
         ELSE value
    ELSE IF value.t = "str" THEN PyStr(str_strip(value.s)) ELSE value

transform_item(key, value) ==
    IF key \in TransformationKeys
    THEN IF transformations(key, value).ok
         THEN transformations(key, value).v   \* try
         ELSE value                           \* except: fallback to original value
    ELSE value                                \* no transformation needed

\* for key, value in data.items(): transformed_data[key] = ...
RECURSIVE transform_loop(_, _)
transform_loop(items, transformed) ==
    IF items = <<>> THEN transformed
    ELSE transform_loop(Tail(items),
                        DictSet(transformed, Head(items).k,
                                transform_item(Head(items).k, Head(items).v)))

RECURSIVE transform_loop_skip_errors(_, _)
transform_loop_skip_errors(items, transformed) ==
    IF items = <<>> THEN transformed
    ELSE transform_loop_skip_errors(
             Tail(items),
             IF Head(items).k \in TransformationKeys
                /\ ~transformations(Head(items).k, Head(items).v).ok
             THEN transformed
             ELSE DictSet(transformed, Head(items).k,
                          transform_item(Head(items).k, Head(items).v)))

transform_data_skip_errors(d) == transform_loop_skip_errors(d, <<>>)

transform_data(d) == transform_loop(d, <<>>)

-----------------------------------------------------------------------------
(* The ads table (docker/database/init.sql and its earlier version)        *)

\* "recorded": the ads.db of the scraper's recorded run, which took a row
\*             with neither url nor date_created (its log shows the insert
\*             followed by the sleep);
\* "base":     CREATE TABLE ads before url was added;
\* "latest":   CREATE TABLE ads with url UNIQUE NOT NULL and ad_duration.
SchemaVersions == {"recorded", "base", "latest"}

BaseColumns ==
    {"id", "insertion_time", "date_created", "price", "location", "make",
     "model", "type", "chassis_number", "manufacture_year", "model_year",
     "mileage", "engine", "power", "displacement", "transmission",
     "condition", "owner", "service_book", "garaged", "in_traffic_since",
     "first_registration_in_croatia", "registered_until", "fuel_consumption",
     "eco_category", "number_of_gears", "warranty", "average_co2_emission",
     "video_call_viewing", "gas", "auto_warranty", "number_of_doors",
     "chassis_type", "number_of_seats", "drive_type", "color",
     "metalic_color", "suspension", "tire_size"}

Columns(sch) ==
    IF sch = "base" THEN BaseColumns
    ELSE BaseColumns \cup {"url", "ad_duration", "internal_code"}

NotNullColumns(sch) ==
    CASE sch = "latest" -> {"url", "date_created", "ad_duration"}
      [] sch = "base"   -> {"date_created"}
      [] OTHER          -> {}

UniqueColumns(sch) == IF sch = "latest" THEN {"url"} ELSE {}

IntColumns ==
    {"manufacture_year", "model_year", "mileage", "power", "displacement",
     "in_traffic_since", "first_registration_in_croatia", "number_of_doors",
     "number_of_seats"}

BooleanColumns ==
    {"service_book", "garaged", "video_call_viewing", "gas", "metalic_color"}

\* an unquoted SQL identifier is folded to lower case
ColumnOf(key) ==
    IF key = "average_CO2_emission" THEN "average_co2_emission" ELSE key

\* the strings PostgreSQL reads as a boolean
BooleanLiterals ==
    { <<"t">>, <<"f">>, <<"y">>, <<"n">>, <<"1">>, <<"0">>,
      <<"t", "r", "u", "e">>, <<"f", "a", "l", "s", "e">>,
      <<"y", "e", "s">>, <<"n", "o">>, <<"o", "n">>, <<"o", "f", "f">> }

\* does a typed column take the value (PostgreSQL), text columns take any
ColumnAccepts(col, v) ==
    CASE col \in IntColumns ->
            \/ v.t \in {"int", "float"}
            \/ v.t = "str" /\ py_int(v.s).ok
      [] col \in BooleanColumns ->
            \/ v.t = "bool"
            \/ v.t = "str" /\ str_lower(str_strip(v.s)) \in BooleanLiterals
      [] OTHER -> TRUE

\* the values of column col in the table
ColumnValues(table, col) ==
    {DictGet(table[i], col) : i \in {j \in 1..Len(table) : DictHas(table[j], col)}}

\* INSERT INTO ads (<keys of rec>) VALUES (...): the error the database
\* raises, or "none".  typed = FALSE is sqlite3, which stores any value in
\* any column.
InsertError(table, rec, sch, typed) ==
    LET cols == {ColumnOf(k) : k \in DictKeys(rec)} IN
    IF rec = <<>> THEN "SyntaxError"
    ELSE IF ~(cols \subseteq Columns(sch)) THEN "UndefinedColumn"
    ELSE IF typed /\ \E i \in 1..Len(rec) : ~ColumnAccepts(ColumnOf(rec[i].k), rec[i].v)
         THEN "InvalidTextRepresentation"
    ELSE IF ~(NotNullColumns(sch) \subseteq cols) THEN "NotNullViolation"
    ELSE IF \E c \in UniqueColumns(sch) :
                DictGet(rec, c) \in ColumnValues(table, c)
         THEN "UniqueViolation"
    ELSE "none"

\* the row the insert adds: id SERIAL and the columns of the record
InsertedRow(table, rec) ==
    <<[k |-> "id", v |-> PyInt(Len(table) + 1)]>>
        \o [i \in 1..Len(rec) |-> [k |-> ColumnOf(rec[i].k), v |-> rec[i].v]]

\* CURRENT_TIMESTAMP: the clock of the database at the time of the insert
CurrentTimestamp == PyStr(<<"CURRENT_TIMESTAMP">>)

\* the columns the table fills in when the INSERT does not list them:
\* insertion_time TIMESTAMP DEFAULT CURRENT_TIMESTAMP
ColumnDefaults(rec, sch) ==
    IF sch \in {"base", "latest"} /\ ~DictHas(rec, "insertion_time")
    THEN <<[k |-> "insertion_time", v |-> CurrentTimestamp]>>
    ELSE <<>>

-----------------------------------------------------------------------------
(* The site the scraper reads                                              *)

\* the ad detail URLs of the listing
Links == {"u1", "u2"}

MaxItems == 2

\* an item of the ad list: its class attribute and the href of the anchor in
\* its title ("missing": the item has no article/title/anchor element)
Banner     == [class |-> "EntityList-item EntityList-bannerContainer", href |-> "missing"]
\* a banner that has an article with a title link of its own
BannerAd   == [class |-> "EntityList-item EntityList-bannerContainer", href |-> "banner"]
AdItem(u)  == [class |-> "EntityList-item", href |-> u]
BrokenItem == [class |-> "EntityList-item", href |-> "missing"]

Items == {Banner, BannerAd, BrokenItem} \cup {AdItem(u) : u \in Links}

\* a listing page: its items, or no ad-list container at all
ListingPages ==
    {[container |-> FALSE, items |-> <<>>]}
        \cup {[container |-> TRUE, items |-> it] :
                it \in UNION {[1..n -> Items] : n \in 0..MaxItems}}

\* a cell of the details list and the text of its
\* ClassifiedDetailBasicDetails-textWrapContainer element, if it has one.
\* A label is kept whole (the code only looks it up), a value is a string
\* of characters.
Cell(text) == [wrap |-> TRUE, text |-> text]
NoTextCell == [wrap |-> FALSE, text |-> <<>>]

\* the text of the system-details element
Published == <<"0", "9", ".", "1", "2", ".", "2", "0", "2", "4", ".", " ", "u", " ",
               "2", "2", ":", "2", "3">>

GoodPage ==
    [list |-> TRUE,
     left  |-> <<Cell("Marka"), Cell("Snaga motora")>>,
     right |-> <<Cell(<<"R", "e", "n", "a", "u", "l", "t">>),
                 Cell(<<"4", "3", " ", "k", "W">>)>>,
     system |-> TRUE, published |-> Published]

\* an ad detail page as the browser renders it
DetailPages ==
    { GoodPage,
      \* a label the translation table does not have, last and first
      [GoodPage EXCEPT !.left = <<Cell("Marka"), Cell("Boja")>>],
      [GoodPage EXCEPT !.left = <<Cell("Boja"), Cell("Snaga motora")>>],
      \* the value column is shorter than the label column
      [GoodPage EXCEPT !.right = <<Cell(<<"4", "3", " ", "k", "W">>)>>],
      \* a value with a double quote in it
      [GoodPage EXCEPT !.right = <<Cell(<<"R", "\"">>), Cell(<<"4", "3", " ", "k", "W">>)>>],
      \* a cell without its text element
      [GoodPage EXCEPT !.right = <<NoTextCell, Cell(<<"4", "3", " ", "k", "W">>)>>],
      \* no details list
      [GoodPage EXCEPT !.list = FALSE, !.left = <<>>, !.right = <<>>],
      \* no system-details element
      [GoodPage EXCEPT !.system = FALSE, !.published = <<>>],
      \* a publication text in another format, and a day the month lacks
      [GoodPage EXCEPT !.published = <<"j", "u", "c", "e", "r">>],
      [GoodPage EXCEPT !.published = <<"3", "1", ".", "0", "2", ".", "2", "0", "2", "4",
                                       ".", " ", "u", " ", "2", "2", ":", "2", "3">>] }

\* carGPT.scraper.scraper.translations.TRANSLATIONS
TRANSLATIONS(label) ==
    CASE label = "Lokacija"     -> "location"
      [] label = "Marka"        -> "make"
      [] label = "Snaga motora" -> "power"
      [] OTHER                  -> "KeyError"

-----------------------------------------------------------------------------
(* NjuskaloScraper: the functions                                          *)

NoException == [type |-> "none", step |-> "none"]
Exception(type, step) == [type |-> type, step |-> step]

\* get_ad_links: the links found and the records logged.  A banner is
\* skipped with `continue`; the first item that is no banner ends the loop
\* (`break`), whether its link was read or the error was logged.
RECURSIVE get_ad_links_no_skip(_)
get_ad_links_no_skip(items) ==
    IF items = <<>> THEN [links |-> <<>>, log |-> <<>>]
    ELSE IF Head(items).href = "missing"
         THEN [links |-> <<>>, log |-> <<"error: link">>]
         ELSE [links |-> <<Head(items).href>>, log |-> <<>>]

RECURSIVE get_ad_links_no_break(_)
get_ad_links_no_break(items) ==
    IF items = <<>> THEN [links |-> <<>>, log |-> <<>>]
    ELSE IF Head(items).class = Banner.class
         THEN [links |-> get_ad_links_no_break(Tail(items)).links,
               log   |-> <<"info: skipping">> \o get_ad_links_no_break(Tail(items)).log]
         ELSE IF Head(items).href = "missing"
              THEN [links |-> get_ad_links_no_break(Tail(items)).links,
                    log   |-> <<"error: link">> \o get_ad_links_no_break(Tail(items)).log]
              ELSE [links |-> <<Head(items).href>> \o get_ad_links_no_break(Tail(items)).links,
                    log   |-> get_ad_links_no_break(Tail(items)).log]

RECURSIVE get_ad_links(_)
get_ad_links(items) ==
    IF items = <<>> THEN [links |-> <<>>, log |-> <<>>]
    ELSE IF Head(items).class = Banner.class
         THEN [links |-> get_ad_links(Tail(items)).links,
               log   |-> <<"info: skipping">> \o get_ad_links(Tail(items)).log]
         ELSE IF Head(items).href = "missing"
              THEN [links |-> <<>>, log |-> <<"error: link">>]
              ELSE [links |-> <<Head(items).href>>, log |-> <<>>]

\* zip(left_column, right_column)
Zip(l, r) ==
    [i \in 1..(IF Len(l) < Len(r) THEN Len(l) ELSE Len(r)) |-> <<l[i], r[i]>>]

\* get_ad_details: the dict, the records logged and whether find_element
\* raised on a cell
RECURSIVE get_ad_details_loop_raise(_, _, _)
get_ad_details_loop_raise(pairs, ad_details, logged) ==
    IF pairs = <<>> THEN [ok |-> TRUE, v |-> ad_details, log |-> logged]
    ELSE LET prop_name  == Head(pairs)[1]
             prop_value == Head(pairs)[2]
         IN IF ~prop_name.wrap \/ ~prop_value.wrap
               \/ TRANSLATIONS(prop_name.text) = "KeyError"
            THEN [ok |-> FALSE, v |-> ad_details, log |-> logged]
            ELSE get_ad_details_loop_raise(
                     Tail(pairs),
                     DictSet(ad_details, TRANSLATIONS(prop_name.text),
                             PyStr(prop_value.text)),
                     logged)

RECURSIVE get_ad_details_loop(_, _, _)
get_ad_details_loop(pairs, ad_details, logged) ==
    IF pairs = <<>> THEN [ok |-> TRUE, v |-> ad_details, log |-> logged]
    ELSE LET prop_name  == Head(pairs)[1]
             prop_value == Head(pairs)[2]
         IN IF ~prop_name.wrap \/ ~prop_value.wrap
            THEN [ok |-> FALSE, v |-> ad_details, log |-> logged]
            ELSE IF TRANSLATIONS(prop_name.text) = "KeyError"
                 THEN get_ad_details_loop(Tail(pairs), ad_details,
                                          Append(logged, "error: no key"))
                 ELSE get_ad_details_loop(
                          Tail(pairs),
                          DictSet(ad_details, TRANSLATIONS(prop_name.text),
                                  PyStr(prop_value.text)),
                          logged)

get_ad_details(left_column, right_column) ==
    get_ad_details_loop(Zip(left_column, right_column), <<>>, <<>>)

\* a run of one or two digits whose number lies in lo..hi
IsField(x, lo, hi) ==
    /\ Len(x) \in {1, 2}
    /\ \A i \in 1..Len(x) : x[i] \in Digits
    /\ DigitsValue(x) \in lo..hi

\* the days of month m of year y
DaysInMonth(m, y) ==
    CASE m \in {4, 6, 9, 11} -> 30
      [] m = 2 -> IF y % 4 = 0 /\ (y % 100 # 0 \/ y % 400 = 0) THEN 29 ELSE 28
      [] OTHER -> 31

\* datetime.strptime(text, "%d.%m.%Y. u %H:%M") returns (TRUE) or raises
strptime_ok(text) ==
    LET p == str_split(text, ".") IN
    /\ Len(p) = 4
    /\ IsField(p[1], 1, 31)
    /\ IsField(p[2], 1, 12)
    /\ Len(p[3]) = 4 /\ \A i \in 1..4 : p[3][i] \in Digits
    /\ DigitsValue(p[3]) >= 1
    /\ DigitsValue(p[1]) <= DaysInMonth(DigitsValue(p[2]), DigitsValue(p[3]))
    /\ p[4] # <<>> /\ p[4][1] \in Whitespace /\ p[4][Len(p[4])] \notin Whitespace
    /\ LET w == str_split_ws(p[4]) IN
       /\ Len(w) = 2
       /\ w[1] = <<"u">>
       /\ LET hm == str_split(w[2], ":") IN
          /\ Len(hm) = 2
          /\ IsField(hm[1], 0, 23)
          /\ IsField(hm[2], 0, 59)

\* extract_article_info: the dict it returns, or the exception it raises.
\* date_time_obj is computed and dropped: the function returns ad_details.
extract_article_info(page) ==
    IF ~page.list
    THEN [exc |-> "NoSuchElementException", v |-> <<>>, log |-> <<>>]
    ELSE LET d == get_ad_details(page.left, page.right) IN
         IF ~d.ok
         THEN [exc |-> "NoSuchElementException", v |-> <<>>, log |-> d.log]
         ELSE IF ~page.system
         THEN [exc |-> "NoSuchElementException", v |-> <<>>, log |-> d.log]
         ELSE IF ~strptime_ok(page.published)
         THEN [exc |-> "ValueError", v |-> <<>>, log |-> d.log]
         ELSE [exc |-> "none", v |-> d.v, log |-> d.log]

\* save_article: insert_str = f"INSERT INTO ads ({columns}) VALUES ({values})"
\* with values = ", ".join([f'"{val}"' for val in article_info.values()]):
\* the column names and the value texts the statement is made of
save_article_insert_str(article_info_) ==
    [columns |-> [i \in 1..Len(article_info_) |-> article_info_[i].k],
     values  |-> [i \in 1..Len(article_info_) |->
                     <<"\"">> \o article_info_[i].v.s \o <<"\"">>]]

\* a value breaks out of the quotes save_article puts around it
HasQuote(rec) == \E i \in 1..Len(rec) : Contains(rec[i].v.s, "\"")

\* cursor.execute(insert_str) of save_article on sqlite3: the error raised
save_article_error(table, article_info_, sch) ==
    IF HasQuote(article_info_) THEN "SyntaxError"
    ELSE InsertError(table, article_info_, sch, FALSE)

\* ChromeDriveConnection.__exit__: self.driver.quit()
ChromeDriveConnection_exit_on_success(session, exception) ==
    IF exception = NoException THEN "quit" ELSE session

ChromeDriveConnection_exit(session, exception) == "quit"

\* DatabaseConnection.__exit__: self.connection.close()
DatabaseConnection_exit_on_success(connection, exception) ==
    IF exception = NoException THEN "closed" ELSE connection

DatabaseConnection_exit(connection, exception) == "closed"

-----------------------------------------------------------------------------
(* NjuskaloScraper: a run of start()                                       *)

MaxRuns == 2

\* the browser before any page is loaded
BlankListing == [container |-> FALSE, items |-> <<>>]
BlankDetail  == [GoodPage EXCEPT !.list = FALSE, !.left = <<>>, !.right = <<>>,
                                 !.system = FALSE, !.published = <<>>]

NotebookIdle ==
    /\ nb_pc = "idle"
    /\ data = <<>>
    /\ transformed_data = <<>>
    /\ conn = "none"
    /\ nb_exc = "none"

ScraperIdle ==
    /\ pc = "idle" /\ browser = "none" /\ db = "none"
    /\ page_ads = BlankListing /\ ad_links = <<>> /\ link = ""
    /\ detail = BlankDetail /\ article_info = <<>> /\ exc = NoException
    /\ log = <<>> /\ sleep_time = 0 /\ runs = 0 /\ saved = <<>>

\* number of /chat requests of a run of the backend
MaxRequests == 3

\* a request that has not arrived
NoRequest ==
    [pc |-> "idle", session_id |-> "", user_message |-> <<>>,
     messages |-> <<>>, stream |-> <<>>, assistant_message_buffer |-> <<>>]

\* chat_histories = {} and no request
ChatIdle ==
    /\ chat_histories = <<>>
    /\ requests = [r \in 1..MaxRequests |-> NoRequest]

Init ==
    /\ ScraperIdle
    /\ NotebookIdle
    /\ ChatIdle
    /\ schema \in {"recorded", "latest"}
    /\ ads = <<>>
    /\ pending = <<>>

\* njws.start(): with ChromeDriveConnection() as driver -- __enter__
Start ==
    /\ pc \in {"idle", "done", "failed"}
    /\ runs < MaxRuns
    /\ runs' = runs + 1
    /\ log' = <<>>
    /\ page_ads' = BlankListing
    /\ detail' = BlankDetail
    /\ ad_links' = <<>>
    /\ link' = ""
    /\ article_info' = <<>>
    /\ db' = "none"
    /\ \/ /\ browser' = "open"                    \* webdriver.Chrome()
          /\ exc' = NoException
          /\ pc' = "start_get"
       \/ /\ browser' = "none"                    \* webdriver.Chrome() raises
          /\ exc' = Exception("WebDriverException", "browser")
          /\ pc' = "failed"
    /\ UNCHANGED <<sleep_time, saved, schema, ads, pending, notebook_vars, chat_vars>>

\* driver.get(self.page_template.format(page_num=self.page_num))
StartGet ==
    /\ pc = "start_get"
    /\ \/ /\ page_ads' \in ListingPages
          /\ exc' = exc
          /\ pc' = "handle_page"
       \/ /\ page_ads' = page_ads
          /\ exc' = Exception("WebDriverException", "listing")
          /\ pc' = "chrome_exit"
    /\ UNCHANGED <<browser, db, ad_links, link, detail, article_info, log,
                   sleep_time, runs, saved, schema, ads, pending, notebook_vars, chat_vars>>

\* handle_page: get_ads, get_ad_links, then the loop over ad_links
HandlePage ==
    /\ pc = "handle_page"
    /\ IF ~page_ads.container
       THEN /\ exc' = Exception("NoSuchElementException", "listing")
            /\ pc' = "chrome_exit"
            /\ UNCHANGED <<ad_links, log>>
       ELSE /\ ad_links' = get_ad_links(page_ads.items).links
            /\ log' = log \o <<"info: found ads">> \o get_ad_links(page_ads.items).log
            /\ exc' = exc
            /\ pc' = IF get_ad_links(page_ads.items).links = <<>>
                     THEN "chrome_exit" ELSE "handle_link"
    /\ UNCHANGED <<browser, db, page_ads, link, detail, article_info,
                   sleep_time, runs, saved, schema, ads, pending, notebook_vars, chat_vars>>

\* handle_link: driver.get(link)
HandleLink ==
    /\ pc = "handle_link"
    /\ link' = Head(ad_links)
    /\ page_ads' = BlankListing
    /\ sleep_time' = 0
    /\ \/ /\ detail' \in DetailPages
          /\ log' = Append(log, "info: went to page")
          /\ exc' = exc
          /\ pc' = "extract"
       \/ /\ detail' = detail
          /\ log' = log
          /\ exc' = Exception("WebDriverException", "navigate")
          /\ pc' = "chrome_exit"
    /\ UNCHANGED <<browser, db, ad_links, article_info, runs, saved,
                   schema, ads, pending, notebook_vars, chat_vars>>

\* handle_link: article_info = self.extract_article_info(driver)
ExtractArticleInfo ==
    /\ pc = "extract"
    /\ log' = log \o extract_article_info(detail).log
    /\ IF extract_article_info(detail).exc = "none"
       THEN /\ article_info' = extract_article_info(detail).v
            /\ exc' = exc
            /\ pc' = "save_connect"
       ELSE /\ article_info' = article_info
            /\ exc' = Exception(extract_article_info(detail).exc, "extract")
            /\ pc' = "chrome_exit"
    /\ UNCHANGED <<browser, db, page_ads, ad_links, link, detail, sleep_time,
                   runs, saved, schema, ads, pending, notebook_vars, chat_vars>>

\* save_article: with DatabaseConnection() as db_conn -- __enter__
SaveConnect ==
    /\ pc = "save_connect"
    /\ \/ /\ db' = "open"                         \* sqlite3.connect("ads.db")
          /\ exc' = exc
          /\ pc' = "save_execute"
       \/ /\ db' = db                             \* sqlite3.connect raises
          /\ exc' = Exception("OperationalError", "persist")
          /\ pc' = "chrome_exit"
    /\ UNCHANGED <<browser, page_ads, ad_links, link, detail, article_info, log,
                   sleep_time, runs, saved, schema, ads, pending, notebook_vars, chat_vars>>

\* save_article: build insert_str, log it, cursor.execute(insert_str)
SaveExecute ==
    /\ pc = "save_execute"
    /\ log' = Append(log, "info: insert")
    /\ IF save_article_error(ads, article_info, schema) = "none"
       THEN /\ pending' = <<InsertedRow(ads, article_info)
                             \o ColumnDefaults(article_info, schema)>>
            /\ exc' = exc
            /\ pc' = "save_commit"
       ELSE /\ pending' = pending
            /\ exc' = Exception(save_article_error(ads, article_info, schema),
                                "persist")
            /\ pc' = "db_exit"
    /\ UNCHANGED <<browser, db, page_ads, ad_links, link, detail, article_info,
                   sleep_time, runs, saved, schema, ads, notebook_vars, chat_vars>>

\* save_article: db_conn.commit()
SaveCommit_no_commit ==
    /\ pc = "save_commit"
    /\ UNCHANGED <<ads, saved, pending, exc>>
    /\ pc' = "db_exit"
    /\ UNCHANGED <<browser, db, page_ads, ad_links, link, detail, article_info,
                   log, sleep_time, runs, schema, notebook_vars, chat_vars>>

SaveCommit ==
    /\ pc = "save_commit"
    /\ \/ /\ ads' = ads \o pending
          /\ saved' = Append(saved, link)
          /\ pending' = <<>>
          /\ exc' = exc
       \/ /\ UNCHANGED <<ads, saved, pending>>    \* commit raises
          /\ exc' = Exception("OperationalError", "persist")
    /\ pc' = "db_exit"
    /\ UNCHANGED <<browser, db, page_ads, ad_links, link, detail, article_info,
                   log, sleep_time, runs, schema, notebook_vars, chat_vars>>

\* save_article: leaving the with block, by return or by exception; closing
\* the connection drops what was not committed
DbExit ==
    /\ pc = "db_exit"
    /\ db' = DatabaseConnection_exit(db, exc)
    /\ pending' = <<>>
    /\ pc' = IF exc = NoException THEN "sleep" ELSE "chrome_exit"
    /\ UNCHANGED <<browser, page_ads, ad_links, link, detail, article_info, exc,
                   log, sleep_time, runs, saved, schema, ads, notebook_vars, chat_vars>>

\* handle_link: sleep_time = random.randint(1, 10); time.sleep(sleep_time);
\* handle_page then takes the next link, or returns
Sleep_from_zero ==
    /\ pc = "sleep"
    /\ sleep_time' \in 0..10
    /\ log' = Append(log, "info: sleeping")
    /\ ad_links' = Tail(ad_links)
    /\ pc' = IF Tail(ad_links) = <<>> THEN "chrome_exit" ELSE "handle_link"
    /\ UNCHANGED <<browser, db, page_ads, link, detail, article_info, exc,
                   runs, saved, schema, ads, pending, notebook_vars, chat_vars>>

Sleep ==
    /\ pc = "sleep"
    /\ sleep_time' \in 1..10
    /\ log' = Append(log, "info: sleeping")
    /\ ad_links' = Tail(ad_links)
    /\ pc' = IF Tail(ad_links) = <<>> THEN "chrome_exit" ELSE "handle_link"
    /\ UNCHANGED <<browser, db, page_ads, link, detail, article_info, exc,
                   runs, saved, schema, ads, pending, notebook_vars, chat_vars>>

\* start: leaving the with block, by return or by exception: the exception,
\* if any, leaves start()
ChromeExit ==
    /\ pc = "chrome_exit"
    /\ browser' = ChromeDriveConnection_exit(browser, exc)
    /\ sleep_time' = 0
    /\ pc' = IF exc = NoException THEN "done" ELSE "failed"
    /\ UNCHANGED <<db, page_ads, ad_links, link, detail, article_info, exc,
                   log, runs, saved, schema, ads, pending, notebook_vars, chat_vars>>

Next ==
    \/ Start
    \/ StartGet
    \/ HandlePage
    \/ HandleLink
    \/ ExtractArticleInfo
    \/ SaveConnect
    \/ SaveExecute
    \/ SaveCommit
    \/ DbExit
    \/ Sleep
    \/ ChromeExit

Spec == Init /\ [][Next]_vars

-----------------------------------------------------------------------------
(* The raw records transform_data is applied to                            *)

MaxTokenLen == 3

\* the characters of a localized number
TokenChars == {"0", "1", ".", ","}

Tokens == UNION {[1..n -> TokenChars] : n \in 1..MaxTokenLen}

Years == {<<"2", "0", "2", "1">>, <<"2", "0", "1", "8">>, <<"1", "9", "9", "9">>}

\* what follows the number: nothing, a unit, or other text
Suffixes ==
    { <<>>,
      <<".">>,
      <<".", " ", "g", "o", "d", "i", "s", "t", "e">>,
      <<" ">>,
      <<" ", "k", "m">>,
      <<" ", "k", "W">>,
      <<" ", "c", "m", "3">>,
      <<" ", "c", "m", "3", ".">>,
      <<" ", "c", ".", "m", "3">>,
      <<" ", "c", "c", "m">>,
      <<"c", "m", "3">>,
      <<" ", "l", "/", "1", "0", "0", "k", "m">>,
      <<" ", "g", "/", "k", "m">> }

\* values that are no number at all
Words ==
    { <<>>,
      <<" ">>,
      <<"N", "/", "A">>,
      <<"p", "r", "v", "i">>,
      <<"D", "a">>, <<"N", "e">>, <<"d", "a">>, <<"D", "A">>, <<"d", "A">>,
      <<" ", "d", "a">>, <<"d", "a", "n">>, <<"^2">>,
      <<"D", "i", "e", "s", "e", "l">>,
      <<"E", "u", "r", "o", " ", "6">> }

\* a raw value: a number or a year followed by a suffix, or a word
IsRawString(x) ==
    \/ \E t \in Tokens \cup Years, s \in Suffixes : x = t \o s
    \/ x \in Words

\* fields without a registered transform
PlainKeys == {"location", "make", "model", "engine", "eco_category"}

Keys == TransformationKeys \cup PlainKeys

Entry(k, s) == [k |-> k, v |-> PyStr(s)]

\* two more fields of the notebook's sample record (cell 1), in its order
SampleRest ==
    << Entry("type", <<"2", "2", "0", " ", "D">>),
       Entry("mileage", <<"8", "4", "0", "0", "0", " ", "k", "m">>),
       Entry("condition", <<"r", "a", "b", "l", "j", "e", "n", "o">>) >>

\* the sample fields other than k
RestWithout(k) == SelectSeq(SampleRest, LAMBDA e : e.k # k)

-----------------------------------------------------------------------------
(* Cell 3 of the notebook: transform_data(data)                            *)

CoerceInit ==
    /\ \E k \in Keys, withRest \in BOOLEAN :
         LET rest == IF withRest THEN RestWithout(k) ELSE <<>> IN
         \/ \E t \in Tokens \cup Years, s \in Suffixes :
                data = <<Entry(k, t \o s)>> \o rest
         \/ \E w \in Words : data = <<Entry(k, w)>> \o rest
    /\ nb_pc = "data"
    /\ transformed_data = <<>>
    /\ conn = "none"
    /\ nb_exc = "none"
    /\ schema = "latest"
    /\ ads = <<>>
    /\ pending = <<>>
    /\ ScraperIdle
    /\ ChatIdle

TransformCell ==
    /\ nb_pc = "data"
    /\ transformed_data' = transform_data(data)
    /\ nb_pc' = "transformed"
    /\ UNCHANGED <<data, conn, nb_exc, schema, ads, pending, scraper_vars, chat_vars>>

CoerceNext == TransformCell

SpecCoerce == CoerceInit /\ [][CoerceNext]_vars

\* transform_data called on the record it returned
TransformAgain ==
    /\ nb_pc = "transformed"
    /\ transformed_data' = transform_data(transformed_data)
    /\ nb_pc' = "retransformed"
    /\ UNCHANGED <<data, conn, nb_exc, schema, ads, pending, scraper_vars, chat_vars>>

TwiceNext == TransformCell \/ TransformAgain

SpecTwice == CoerceInit /\ [][TwiceNext]_vars


-----------------------------------------------------------------------------
(* The insertion cell of the notebook (psycopg2, PostgreSQL)               *)

\* raw values of the sample record and of the specification's examples
InsertStrings ==
    { <<"N", "/", "A">>,
      <<"1", "4", "3", " ", "k", "W">>,
      <<"8", "4", "0", "0", "0", " ", "k", "m">>,
      <<"1", ".", "9", "5", "0", " ", "c", "m", "3">>,
      <<"2", "3", ",", "7", " ", "l", "/", "1", "0", "0", "k", "m">>,
      <<"2", "0", "2", "1", ".">>,
      <<"D", "a">>,
      <<"p", "r", "v", "i">>,
      <<"2">>,
      <<"D", "i", "e", "s", "e", "l">> }

\* datetime.now().isoformat(): the wall clock at the time of the call
PyNow == [t |-> "str", s |-> <<"n", "o", "w", "(", ")">>, n |-> 0, e |-> 0]

InsertInit ==
    /\ \E k \in Keys, w \in InsertStrings, withRest \in BOOLEAN :
          data = <<Entry(k, w)>> \o (IF withRest THEN RestWithout(k) ELSE <<>>)
    /\ nb_pc = "data"
    /\ transformed_data = <<>>
    /\ conn = "none"
    /\ nb_exc = "none"
    /\ schema \in {"base", "latest"}
    /\ ads = <<>>
    /\ pending = <<>>
    /\ ScraperIdle
    /\ ChatIdle

\* insert_query = f"INSERT INTO ads ({columns}) VALUES ({values});" with
\* values = ", ".join([f"%({key})s" for key in transformed_data.keys()]):
\* the column names and the placeholders; the record itself is the second
\* argument of cursor.execute
insert_query(transformed_data_) ==
    [columns |-> [i \in 1..Len(transformed_data_) |-> transformed_data_[i].k],
     values  |-> [i \in 1..Len(transformed_data_) |->
                     <<"%(", transformed_data_[i].k, ")s">>]]

\* the record the cell hands to cursor.execute
StampedRecord(d) == DictSet(transform_data(d), "date_created", PyNow)

\* connect, transform_data, stamp date_created, execute, commit, close.
\* Nothing closes the connection when execute or commit raises.
InsertionCell ==
    /\ nb_pc = "data"
    /\ \/ /\ nb_exc' = "OperationalError"             \* psycopg2.connect raises
          /\ nb_pc' = "failed"
          /\ UNCHANGED <<conn, transformed_data, ads>>
       \/ /\ transformed_data' = StampedRecord(data)
          /\ nb_exc' = InsertError(ads, StampedRecord(data), schema, TRUE)
          /\ IF InsertError(ads, StampedRecord(data), schema, TRUE) = "none"
             THEN /\ ads' = Append(ads, InsertedRow(ads, StampedRecord(data))
                                          \o ColumnDefaults(StampedRecord(data), schema))
                  /\ conn' = "closed"
                  /\ nb_pc' = "inserted"
             ELSE /\ ads' = ads
                  /\ conn' = "open"
                  /\ nb_pc' = "failed"
       \/ /\ InsertError(ads, StampedRecord(data), schema, TRUE) = "none"
          /\ transformed_data' = StampedRecord(data)
          /\ nb_exc' = "CommitError"                  \* conn.commit() raises
          /\ conn' = "open"
          /\ nb_pc' = "failed"
          /\ ads' = ads
    /\ UNCHANGED <<data, schema, pending, scraper_vars, chat_vars>>

InsertNext == InsertionCell

SpecInsert == InsertInit /\ [][InsertNext]_vars

-----------------------------------------------------------------------------
(* The chat backend (carGPT/backend/main.py): POST /chat                   *)
(* The handlers are coroutines of one event loop: what runs between two    *)
(* awaits or yields is one step.  A message carries the request it was     *)
(* made for (req), which tells apart messages with the same content.       *)

HumanMessage(content, r) == [type |-> "human", content |-> content, req |-> r]
AIMessage(content, r)    == [type |-> "ai", content |-> content, req |-> r]

\* data.get("session_id"): "" stands for an empty or missing value
SessionIds == {"", "s1", "s2"}

\* data.get("message"): <<>> stands for an empty or missing value
UserMessages == {<<>>, <<"h", "i">>}

\* the contents of the events graph.astream yields for one model reply
Streams ==
    { <<>>,
      << <<>> >>,
      << <<"o", "k">> >>,
      << <<"o">>, <<"k">> >> }

\* "".join(assistant_message_buffer)
RECURSIVE str_join(_)
str_join(parts) ==
    IF parts = <<>> THEN <<>> ELSE Head(parts) \o str_join(Tail(parts))

\* get_chat_history: chat_histories after the call, in which session_id has
\* a history (a new empty one when it had none)
get_chat_history(histories, session_id) ==
    [s \in (DOMAIN histories) \cup {session_id} |->
        IF s \in DOMAIN histories THEN histories[s] ELSE <<>>]

\* chat_history.add_user_message / add_ai_message on the history of session_id
add_user_message(histories, session_id, content, r) ==
    [histories EXCEPT ![session_id] = Append(@, HumanMessage(content, r))]

add_ai_message(histories, session_id, content, r) ==
    [histories EXCEPT ![session_id] = Append(@, AIMessage(content, r))]

\* call_model: messages = list(chat_history.messages) + state["messages"],
\* where state["messages"] is [input_message] of the request
call_model_messages(histories, session_id, user_message, r) ==
    get_chat_history(histories, session_id)[session_id]
        \o <<HumanMessage(user_message, r)>>

\* chat(request) up to `return StreamingResponse(event_generator())`:
\* requests arrive in the order of their numbers
Chat(r) ==
    /\ requests[r].pc = "idle"
    /\ \A q \in 1..(r - 1) : requests[q].pc # "idle"
    /\ \E user_message \in UserMessages, session_id \in SessionIds :
          IF user_message = <<>> \/ session_id = ""
          THEN /\ requests' = [requests EXCEPT                \* raise ValueError
                                  ![r].pc = "rejected",
                                  ![r].session_id = session_id,
                                  ![r].user_message = user_message]
               /\ UNCHANGED chat_histories
          ELSE /\ chat_histories' =
                      add_user_message(get_chat_history(chat_histories, session_id),
                                       session_id, user_message, r)
               /\ requests' = [requests EXCEPT
                                  ![r].pc = "response",
                                  ![r].session_id = session_id,
                                  ![r].user_message = user_message]
    /\ UNCHANGED <<scraper_vars, notebook_vars, schema, ads, pending>>

\* event_generator starts: graph.astream runs call_model, which reads the
\* history and awaits model.ainvoke(messages, config)
CallModel(r) ==
    /\ requests[r].pc = "response"
    /\ LET messages == call_model_messages(chat_histories, requests[r].session_id,
                                           requests[r].user_message, r)
       IN \/ requests' = [requests EXCEPT                     \* the model raises
                             ![r].pc = "failed",
                             ![r].messages = messages]
          \/ \E stream \in Streams :
                requests' = [requests EXCEPT
                               ![r].pc = "streaming",
                               ![r].messages = messages,
                               ![r].stream = stream]
    /\ UNCHANGED <<chat_histories, scraper_vars, notebook_vars, schema, ads, pending>>

\* one turn of `async for event, _ in graph.astream(...)`: append and yield
Yield(r) ==
    /\ requests[r].pc = "streaming"
    /\ requests[r].stream # <<>>
    /\ requests' = [requests EXCEPT
                      ![r].assistant_message_buffer = Append(@, Head(requests[r].stream)),
                      ![r].stream = Tail(@)]
    /\ UNCHANGED <<chat_histories, scraper_vars, notebook_vars, schema, ads, pending>>

\* the stream is exhausted: if assistant_message_buffer: add_ai_message(...)
Finish(r) ==
    /\ requests[r].pc = "streaming"
    /\ requests[r].stream = <<>>
    /\ IF requests[r].assistant_message_buffer # <<>>
       THEN chat_histories' =
               add_ai_message(chat_histories, requests[r].session_id,
                              str_join(requests[r].assistant_message_buffer), r)
       ELSE UNCHANGED chat_histories
    /\ requests' = [requests EXCEPT ![r].pc = "done"]
    /\ UNCHANGED <<scraper_vars, notebook_vars, schema, ads, pending>>

\* the client goes away: the response's generator is closed where it waits
\* and the code after its loop never runs
Abandon(r) ==
    /\ requests[r].pc \in {"response", "streaming"}
    /\ requests' = [requests EXCEPT ![r].pc = "abandoned"]
    /\ UNCHANGED <<chat_histories, scraper_vars, notebook_vars, schema, ads, pending>>

ChatInit ==
    /\ ChatIdle
    /\ ScraperIdle
    /\ NotebookIdle
    /\ schema = "latest"
    /\ ads = <<>>
    /\ pending = <<>>

ChatNext ==
    \E r \in 1..MaxRequests :
        \/ Chat(r)
        \/ CallModel(r)
        \/ Yield(r)
        \/ Finish(r)
        \/ Abandon(r)

SpecChat == ChatInit /\ [][ChatNext]_vars

-----------------------------------------------------------------------------
(* Properties of transform_data                                            *)

Transformed == nb_pc = "transformed"

\* the positions of data whose key is one of ks and whose value is a str
FieldsOf(ks) == {i \in 1..Len(data) : data[i].k \in ks /\ data[i].v.t = "str"}

\* transformed_data[data[i].k]
Out(i) == DictGet(transformed_data, data[i].k)

RECURSIVE Pow10(_)
Pow10(n) == IF n = 0 THEN 1 ELSE 10 * Pow10(n - 1)

\* the number written by the digits of x, every other character skipped
RECURSIVE DecimalOf(_)
DecimalOf(x) ==
    IF x = <<>> THEN 0
    ELSE IF x[Len(x)] \in Digits
         THEN 10 * DecimalOf(SubSeq(x, 1, Len(x) - 1)) + DigitVal(x[Len(x)])
         ELSE DecimalOf(SubSeq(x, 1, Len(x) - 1))

\* the longest prefix of x made of the characters cs, and what follows it
RECURSIVE PrefixLen(_, _)
PrefixLen(x, cs) ==
    IF x # <<>> /\ Head(x) \in cs THEN 1 + PrefixLen(Tail(x), cs) ELSE 0

NumberPart(x) == SubSeq(x, 1, PrefixLen(x, Digits \cup {"."}))
SuffixPart(x) == SubSeq(x, PrefixLen(x, Digits \cup {"."}) + 1, Len(x))

HasDigit(x) == \E i \in 1..Len(x) : x[i] \in Digits
HasText(x)  == \E i \in 1..Len(x) : x[i] \notin Whitespace

\* C4: when the registered transform of a field raises on its raw value,
\* transform_data still returns: the output holds the original string for
\* that field, and every other field of the record is produced as well.
C4_FallbackKeepsOriginal ==
    Transformed =>
        \A i \in FieldsOf(TransformationKeys) :
            ~transformations(data[i].k, data[i].v).ok =>
                /\ DictHas(transformed_data, data[i].k)
                /\ Out(i) = data[i].v
                /\ Len(transformed_data) = Len(data)
                /\ \A j \in 1..Len(data) : DictHas(transformed_data, data[j].k)

\* power = "N/A" went through transform_data together with other fields
C4_Witness ==
    /\ Transformed
    /\ data[1] = Entry("power", <<"N", "/", "A">>)
    /\ Len(data) > 1
    /\ Out(1) = PyStr(<<"N", "/", "A">>)
    /\ DictGet(transformed_data, "mileage") = PyInt(84000)

\* C5: the output of transform_data has exactly the keys of its input, and
\* each value is the registered transform's result or the input value.
C5_NoFieldDropped ==
    Transformed =>
        /\ DictKeys(transformed_data) = DictKeys(data)
        /\ Len(transformed_data) = Len(data)
        /\ \A i \in 1..Len(data) :
              \/ Out(i) = data[i].v
              \/ /\ data[i].k \in TransformationKeys
                 /\ transformations(data[i].k, data[i].v).ok
                 /\ Out(i) = transformations(data[i].k, data[i].v).v

\* a record with a field whose transform raised and fields that were coerced
C5_Witness ==
    /\ Transformed
    /\ Len(data) = 4
    /\ data[1].k = "displacement"
    /\ ~transformations("displacement", data[1].v).ok
    /\ DictKeys(transformed_data) = {"displacement", "type", "mileage", "condition"}

\* C6: a field with no registered transform (location, make, model, engine,
\* eco_category) comes out of transform_data as the same string.
C6_PassThrough ==
    Transformed =>
        \A i \in 1..Len(data) :
            data[i].k \in {"location", "make", "model", "engine", "eco_category"}
                => Out(i) = data[i].v

\* a plain field whose value looks like a number with blanks around it
C6_Witness ==
    /\ Transformed
    /\ data[1] = Entry("engine", <<"1", "0", " ">>)
    /\ Out(1) = PyStr(<<"1", "0", " ">>)

\* "YYYY", "YYYY." or "YYYY." followed by text
IsYearForm(x) ==
    /\ Len(x) >= 4
    /\ \A i \in 1..4 : x[i] \in Digits
    /\ Len(x) = 4 \/ x[5] = "."

\* C7: manufacture_year, model_year and in_traffic_since of the form "YYYY",
\* "YYYY." or "YYYY." followed by text coerce to the integer YYYY.
C7_YearCoercion ==
    Transformed =>
        \A i \in FieldsOf({"manufacture_year", "model_year", "in_traffic_since"}) :
            IsYearForm(data[i].v.s) =>
                Out(i) = PyInt(1000 * DigitVal(data[i].v.s[1])
                               + 100 * DigitVal(data[i].v.s[2])
                               + 10 * DigitVal(data[i].v.s[3])
                               + DigitVal(data[i].v.s[4]))

\* "2021. godiste" coerced to 2021
C7_Witness ==
    /\ Transformed
    /\ data[1] = Entry("manufacture_year",
                       <<"2", "0", "2", "1", ".", " ", "g", "o", "d", "i", "s", "t", "e">>)
    /\ Out(1) = PyInt(2021)

\* a digit group with '.' separators, then whitespace, then a unit
IsQuantityForm(x) ==
    /\ HasDigit(NumberPart(x))
    /\ SuffixPart(x) # <<>>
    /\ Head(SuffixPart(x)) \in Whitespace
    /\ HasText(SuffixPart(x))

\* C8: a mileage made of a digit group with '.' thousands separators,
\* whitespace and a unit coerces to the integer written by the digits.
C8_MileageCoercion ==
    Transformed =>
        \A i \in FieldsOf({"mileage"}) :
            IsQuantityForm(data[i].v.s) =>
                Out(i) = PyInt(DecimalOf(NumberPart(data[i].v.s)))

\* "1.0 km" coerced to 10
C8_Witness ==
    /\ Transformed
    /\ data[1] = Entry("mileage", <<"1", ".", "0", " ", "k", "m">>)
    /\ Out(1) = PyInt(10)

CM3 == <<" ", "c", "m", "3">>

\* the displacement fields whose value is a digit group with '.' separators
\* followed by the suffix sfx
DisplacementWith(sfx) ==
    {i \in FieldsOf({"displacement"}) :
        HasDigit(NumberPart(data[i].v.s)) /\ SuffixPart(data[i].v.s) = sfx}

\* what the suffix of x leaves once every '.' and every " cm3" is deleted
SuffixResidue(x) == str_replace(str_replace(SuffixPart(x), <<".">>, <<>>), CM3, <<>>)

\* C9 as stated: digits with '.' separators followed by " cm3" coerce to the
\* integer written by the digits, and a value with any other unit suffix is
\* not parsed and keeps its original string.
C9_AsStated ==
    Transformed =>
        /\ \A i \in DisplacementWith(CM3) :
              Out(i) = PyInt(DecimalOf(NumberPart(data[i].v.s)))
        /\ \A i \in FieldsOf({"displacement"}) :
              /\ HasDigit(NumberPart(data[i].v.s))
              /\ HasText(SuffixPart(data[i].v.s))
              /\ SuffixPart(data[i].v.s) # CM3
              => Out(i) = data[i].v

\* C9 amended: digits with '.' separators followed by " cm3" coerce to the
\* integer written by the digits; a value keeps its original string when its
\* suffix, with every '.' and every " cm3" deleted, still holds a character
\* that is neither a digit, an underscore nor whitespace (" ccm", " km",
\* "cm3"); a suffix that those deletions reduce to nothing (" cm3.",
\* " c.m3") is parsed like " cm3".
C9_DisplacementCoercion ==
    Transformed =>
        /\ \A i \in DisplacementWith(CM3) :
              Out(i) = PyInt(DecimalOf(NumberPart(data[i].v.s)))
        /\ \A i \in FieldsOf({"displacement"}) :
              /\ HasDigit(NumberPart(data[i].v.s))
              /\ \E j \in 1..Len(SuffixResidue(data[i].v.s)) :
                    SuffixResidue(data[i].v.s)[j]
                        \notin Digits \cup Whitespace \cup {"_"}
              => Out(i) = data[i].v
        /\ \A i \in FieldsOf({"displacement"}) :
              /\ HasDigit(NumberPart(data[i].v.s))
              /\ SuffixResidue(data[i].v.s) = <<>>
              => Out(i) = PyInt(DecimalOf(NumberPart(data[i].v.s)))

\* "1.0 cm3" coerced to 10
C9_Witness ==
    /\ Transformed
    /\ data[1] = Entry("displacement", <<"1", ".", "0">> \o CM3)
    /\ Out(1) = PyInt(10)

\* a digit group, one ',' or '.', a digit group
IsDecimalToken(x) ==
    \E i \in 2..(Len(x) - 1) :
        /\ x[i] \in {",", "."}
        /\ \A j \in (1..Len(x)) \ {i} : x[j] \in Digits

\* the first whitespace-separated token of a string that starts with it
FirstToken(x) == SubSeq(x, 1, PrefixLen(x, Digits \cup {".", ","}))

\* C10: for fuel_consumption and average_CO2_emission the first token, with
\* every ',' read as '.', is parsed as a decimal number; the value written
\* with a comma and the one written with a dot coerce to the same number.
C10_DecimalCoercion ==
    Transformed =>
        \A i \in FieldsOf({"fuel_consumption", "average_CO2_emission"}) :
            LET x == data[i].v.s
                tok == FirstToken(x)
                frac == Len(tok) - (CHOOSE p \in 1..Len(tok) : tok[p] \in {",", "."})
            IN /\ IsDecimalToken(tok)
               /\ SuffixPart(x) = <<>> \/ SuffixPart(x)[1] \in Whitespace \cup {","}
               /\ Len(tok) = Len(x) \/ x[Len(tok) + 1] \in Whitespace
               => /\ Out(i).t = "float"
                  /\ Out(i).n * Pow10(frac) = DecimalOf(tok) * Pow10(Out(i).e)
                  /\ transformations(data[i].k,
                                     PyStr(str_replace(x, <<",">>, <<".">>)))
                        = Returned(Out(i))

\* "1,0 l/100km" coerced to the number 1.0
C10_Witness ==
    /\ Transformed
    /\ data[1] = Entry("fuel_consumption",
                       <<"1", ",", "0", " ", "l", "/", "1", "0", "0", "k", "m">>)
    /\ Out(1) = PyFloat(1, 0)

\* x is "da" up to the case of its letters
IsDa(x) == Len(x) = 2 /\ x[1] \in {"d", "D"} /\ x[2] \in {"a", "A"}

\* C11: service_book coerces to the boolean true exactly when the raw string
\* is "da" ignoring letter case and to false for every other string; the
\* raw string never comes back.
C11_ServiceBookCoercion ==
    Transformed =>
        \A i \in FieldsOf({"service_book"}) : Out(i) = PyBool(IsDa(data[i].v.s))

\* "Da" coerced to true
C11_Witness ==
    /\ Transformed
    /\ data[1] = Entry("service_book", <<"D", "a">>)
    /\ Out(1) = PyBool(TRUE)

\* the first whitespace-separated token of x, empty when x has none
RECURSIVE WordLen(_)
WordLen(x) == IF x # <<>> /\ Head(x) \notin Whitespace THEN 1 + WordLen(Tail(x)) ELSE 0

FirstWord(x) == SubSeq(str_lstrip(x), 1, WordLen(str_lstrip(x)))

\* C12: owner coerces to the integer of its first token when that token is
\* made of digits only; any other value, the empty and the all-whitespace
\* value included, comes back as the original string.
C12_OwnerCoercion ==
    Transformed =>
        \A i \in FieldsOf({"owner"}) :
            LET tok == FirstWord(data[i].v.s) IN
            IF tok # <<>> /\ \A j \in 1..Len(tok) : tok[j] \in Digits
            THEN Out(i) = PyInt(DecimalOf(tok))
            ELSE Out(i) = data[i].v

\* "10 km": the first token is read, whatever follows it
C12_Witness ==
    /\ Transformed
    /\ data[1] = Entry("owner", <<"1", "0", " ", "k", "m">>)
    /\ Out(1) = PyInt(10)

-----------------------------------------------------------------------------
(* Properties of the insertion cell                                        *)

\* the table holds a row whose column for key k is v
Persisted(k, v) ==
    \E r \in 1..Len(ads) : DictHas(ads[r], ColumnOf(k)) /\ DictGet(ads[r], ColumnOf(k)) = v

\* C4 as stated: when the registered transform of a field raises, the record
\* keeps the original string for that field and the record is still
\* persisted (the database was reachable and the commit went through).
C4_AsStated ==
    nb_pc \in {"inserted", "failed"} /\ nb_exc \notin {"OperationalError", "CommitError"} =>
        \A i \in FieldsOf(TransformationKeys) :
            ~transformations(data[i].k, data[i].v).ok =>
                /\ Out(i) = data[i].v
                /\ Persisted(data[i].k, data[i].v)

\* the insertion cell ran on a record with power = "N/A" next to other fields
C4_InsertWitness ==
    /\ nb_pc = "failed"
    /\ schema = "base"
    /\ nb_exc = "InvalidTextRepresentation"
    /\ data[1] = Entry("power", <<"N", "/", "A">>)
    /\ Out(1) = PyStr(<<"N", "/", "A">>)
    /\ ads = <<>>

\* C16 as stated: in every persisted row insertion_time is the time the
\* database assigned, the record handed over carries no insertion_time, and
\* date_created is not the wall-clock time of the moment of persistence.
C16_AsStated ==
    \A r \in 1..Len(ads) :
        /\ DictHas(ads[r], "insertion_time")
        /\ DictGet(ads[r], "insertion_time") = CurrentTimestamp
        /\ ~DictHas(transformed_data, "insertion_time")
        /\ DictHas(ads[r], "date_created")
        /\ DictGet(ads[r], "date_created") # PyNow

-----------------------------------------------------------------------------
(* Properties of the scraper                                               *)

\* C1 as stated: the ads table never holds two rows for the same ad URL
\* (saved[i] is the link whose handling inserted row i).
C1_AsStated ==
    /\ Len(saved) = Len(ads)
    /\ \A i, j \in 1..Len(saved) : saved[i] = saved[j] => i = j

\* C2 as stated: an exception raised while navigating to, extracting or
\* persisting one ad never leaves the batch: no run of start() ends with it.
C2_AsStated ==
    pc = "failed" => exc.step \notin {"navigate", "extract", "persist"}

\* C3: when a run has ended, normally or by an exception, the browser that
\* was opened is quit and the connection that was opened is closed.
C3_ScopedCleanup ==
    pc \in {"idle", "done", "failed"} =>
        /\ browser # "open"
        /\ db # "open"
        /\ pending = <<>>

\* a run that failed inside save_article, with both resources held
C3_Witness ==
    /\ pc = "failed"
    /\ exc = Exception("NotNullViolation", "persist")
    /\ browser = "quit"
    /\ db = "closed"

\* the state right after extract_article_info returned for the page `detail`
Extracted == pc = "save_connect"

\* the label/value pairs get_ad_details goes through
Pairs == Zip(detail.left, detail.right)

Unmapped == {i \in 1..Len(Pairs) : TRANSLATIONS(Pairs[i][1].text) = "KeyError"}

\* C13: a label without an entry in the translation table is logged and adds
\* no key; get_ad_details does not raise because of it and goes on with the
\* pairs that follow, so every key of the record is the canonical name of a
\* label of the page.
C13_UnmappedLabels ==
    /\ Extracted =>
          /\ \A k \in DictKeys(article_info) :
                \E i \in 1..Len(detail.left) : TRANSLATIONS(detail.left[i].text) = k
          /\ "KeyError" \notin DictKeys(article_info)
          /\ \A i \in (1..Len(Pairs)) \ Unmapped :
                DictGet(article_info, TRANSLATIONS(Pairs[i][1].text))
                    = PyStr(Pairs[i][2].text)
          /\ Cardinality({j \in 1..Len(log) : log[j] = "error: no key"})
                = Cardinality(Unmapped)
    /\ exc.step = "extract" =>
          \/ ~detail.list
          \/ ~detail.system
          \/ ~strptime_ok(detail.published)
          \/ \E i \in 1..Len(Pairs) : ~Pairs[i][1].wrap \/ ~Pairs[i][2].wrap

\* the label "Boja" is unmapped and the pair after it is still read
C13_Witness ==
    /\ Extracted
    /\ detail.left = <<Cell("Boja"), Cell("Snaga motora")>>
    /\ DictKeys(article_info) = {"power"}
    /\ "error: no key" \in {log[j] : j \in 1..Len(log)}

\* C14 as stated: when the label column and the value column differ in
\* length, extraction of the ad fails and nothing of it reaches save_article.
C14_AsStated ==
    pc \in {"save_connect", "save_execute", "save_commit"} =>
        Len(detail.left) = Len(detail.right)

\* C15 as stated: the record extract_article_info returns holds date_created,
\* parsed from the system-details text, and a text in another format makes
\* the extraction fail.
C15_AsStated ==
    /\ Extracted => DictHas(article_info, "date_created")
    /\ Extracted => strptime_ok(detail.published)

\* the state right after get_ad_links returned for the listing `page_ads`
Enumerated == page_ads.container /\ pc \in {"handle_link", "chrome_exit"}

\* the items of the listing that carry no banner-container class
NonBanner == {i \in 1..Len(page_ads.items) : page_ads.items[i].class # Banner.class}

\* the first of them, when there is one
FirstNonBanner == CHOOSE i \in NonBanner : \A j \in NonBanner : i <= j

LinkSet == {ad_links[i] : i \in 1..Len(ad_links)}

\* C17: no link returned by get_ad_links comes from a banner item, and the
\* banners before the first real ad do not end the enumeration: the href of
\* that ad is returned.
C17_BannerSkipping ==
    Enumerated =>
        /\ \A l \in LinkSet : \E i \in NonBanner : page_ads.items[i].href = l
        /\ "banner" \notin LinkSet
        /\ NonBanner # {} /\ page_ads.items[FirstNonBanner].href # "missing"
              => page_ads.items[FirstNonBanner].href \in LinkSet

\* a banner with a link of its own, then the ad u1: u1 is returned
C17_Witness ==
    /\ Enumerated
    /\ page_ads.items = <<BannerAd, AdItem("u1")>>
    /\ ad_links = <<"u1">>

\* C18 as stated: an item whose link extraction raises is logged and skipped
\* and the items after it are still considered: the first well-formed ad of
\* the page yields its link although broken items precede it.
C18_AsStated ==
    Enumerated =>
        \A i \in NonBanner :
            /\ page_ads.items[i].href # "missing"
            /\ \A j \in NonBanner : j < i => page_ads.items[j].href = "missing"
            => page_ads.items[i].href \in LinkSet

\* C19: get_ad_links returns at most one URL, the href of the first item that
\* is no banner, and a page visit (a run of start) persists at most one ad.
C19_OnlyFirstAd ==
    /\ Len(ad_links) <= 1
    /\ Enumerated /\ ad_links # <<>> =>
          /\ NonBanner # {}
          /\ ad_links[1] = page_ads.items[FirstNonBanner].href
    /\ Len(ads) <= runs

\* a listing with the two ads u1 and u2: only u1 is returned
C19_Witness ==
    /\ Enumerated
    /\ page_ads.items = <<AdItem("u1"), AdItem("u2")>>
    /\ ad_links = <<"u1">>

\* C20 as stated: every record handed to save_article went through
\* transform_data first: no persisted row holds, for a field with a
\* registered transform, a raw string that the transform reads.
C20_AsStated ==
    \A r \in 1..Len(ads) : \A i \in 1..Len(ads[r]) : \A k \in TransformationKeys :
        ColumnOf(k) = ads[r][i].k /\ ads[r][i].v.t = "str" =>
            \/ ~transformations(k, ads[r][i].v).ok
            \/ transformations(k, ads[r][i].v).v = ads[r][i].v

RowHolds(row, rec) ==
    \A i \in 1..Len(rec) :
        /\ DictHas(row, ColumnOf(rec[i].k))
        /\ DictGet(row, ColumnOf(rec[i].k)) = rec[i].v

\* C22: when save_article has returned, the record is committed in the ads
\* table, before the sleep and before any further ad; no later step, failing
\* or not, removes or changes a committed row.
C22_CrashSafety ==
    /\ [](pc = "sleep" => /\ ads # <<>>
                          /\ RowHolds(ads[Len(ads)], article_info)
                          /\ saved[Len(saved)] = link
                          /\ pending = <<>>)
    /\ [][Len(ads') >= Len(ads) /\ SubSeq(ads', 1, Len(ads)) = ads]_vars

\* a second run failed after the first run had committed its ad
C22_Witness ==
    /\ pc = "failed"
    /\ runs = 2
    /\ Len(ads) = 1
    /\ saved = <<"u1">>

\* the records extract_article_info returns for the pages of the site
Records == {extract_article_info(p).v :
               p \in {q \in DetailPages : extract_article_info(q).exc = "none"}}

\* C23 as stated: the statement save_article builds lists the fields of the
\* record in the record's order, and its text is the same for any record
\* with the same fields, whatever the values are.
C23_AsStated ==
    pc = "save_execute" =>
        /\ save_article_insert_str(article_info).columns
               = [i \in 1..Len(article_info) |-> article_info[i].k]
        /\ \A rec \in Records :
               [i \in 1..Len(rec) |-> rec[i].k]
                   = [i \in 1..Len(article_info) |-> article_info[i].k]
               => save_article_insert_str(rec) = save_article_insert_str(article_info)

\* C24 as stated: the record handed to save_article carries url, equal to the
\* link that was navigated to, and date_created; under the latest schema an
\* insert without them is rejected and the table stays as it was.
C24_AsStated ==
    /\ pc \in {"save_connect", "save_execute"} =>
          /\ DictHas(article_info, "url")
          /\ DictGet(article_info, "url").s = <<link>>
          /\ DictHas(article_info, "date_created")
    /\ schema = "latest" /\ pc = "save_commit" =>
          {"url", "date_created"} \subseteq DictKeys(article_info)

Retransformed == nb_pc = "retransformed"

\* C25: transform_data applied to its own output returns that output: the
\* record after the second call is transform_data(data), with the same keys
\* in the same order, and every value that the first call turned into an
\* int, a float or a bool is the same value after the second call.
C25_Idempotent ==
    Retransformed =>
        /\ transformed_data = transform_data(data)
        /\ \A i \in 1..Len(data) :
              /\ transformed_data[i].k = data[i].k
              /\ transform_data(data)[i].v.t # "str"
                    => ~transformations(data[i].k, transform_data(data)[i].v).ok
                       \/ data[i].k \notin TransformationKeys

\* the second call on a record in which the first call made service_book a
\* bool and mileage an int
C25_Witness ==
    /\ Retransformed
    /\ Len(data) = 4
    /\ data[1].k = "service_book"
    /\ data[1].v = PyStr(<<"D", "a">>)
    /\ transformed_data[1].v = PyBool(TRUE)
    /\ data[3].k = "mileage"
    /\ transformed_data[3].v = PyInt(84000)

-----------------------------------------------------------------------------
(* Properties of the chat backend                                          *)

\* the request has been through call_model
Called(r) == requests[r].messages # <<>>

\* C26 as stated: the list passed to the model is the session's history from
\* before the request followed by the request's user message, which is in
\* the list exactly once.
C26_AsStated ==
    \A r \in 1..MaxRequests :
        Called(r) =>
            LET m == requests[r].messages IN
            /\ m[Len(m)] = HumanMessage(requests[r].user_message, r)
            /\ \A i \in 1..(Len(m) - 1) : m[i].req # r
            /\ Cardinality({i \in 1..Len(m) : m[i].req = r}) = 1

\* the request is still being answered
InFlight(r) == requests[r].pc \in {"response", "streaming"}

\* human and AI messages alternate in h, and each human message is followed
\* by the AI reply to its request; the human message of a request that is
\* still being answered may be the last one
Alternates(h) ==
    \A i \in 1..Len(h) :
        /\ h[i].type = (IF i % 2 = 1 THEN "human" ELSE "ai")
        /\ h[i].type = "human" =>
              IF i = Len(h) THEN InFlight(h[i].req)
              ELSE h[i + 1].type = "ai" /\ h[i + 1].req = h[i].req

\* a step changes only the history of the session of the request that took it
Isolated ==
    \A s \in DOMAIN chat_histories :
        chat_histories'[s] # chat_histories[s] =>
            \E r \in 1..MaxRequests :
                requests'[r] # requests[r] /\ requests'[r].session_id = s

\* C27 as stated: in every state the history of every session alternates
\* human and AI messages, each human message followed by the reply to its
\* own request, and no request changes the history of another session.
C27_AsStated ==
    /\ [](\A s \in DOMAIN chat_histories : Alternates(chat_histories[s]))
    /\ [][Isolated]_vars

\* the half of C27 about sessions: histories are only created or appended
\* to, and only by a request of their own session
C27_SessionIsolation ==
    [][/\ Isolated
       /\ DOMAIN chat_histories \subseteq DOMAIN chat_histories'
       /\ \A s \in DOMAIN chat_histories :
             /\ Len(chat_histories'[s]) >= Len(chat_histories[s])
             /\ SubSeq(chat_histories'[s], 1, Len(chat_histories[s]))
                   = chat_histories[s]]_vars

====
